---- MODULE Spec2Model ----
(***************************************************************************)
(* Model of the institution crawler of waiterbildung:                      *)
(*   - app/core/utils.py      normalize_url, get_domain                    *)
(*   - app/core/scraper.py    Crawler (should_process_url, process_url,    *)
(*                            worker, crawl), extract_course               *)
(*   - app/api/institution.py scrape_institution,                          *)
(*                            scrape_institution_courses                   *)
(*   - app/services/extraction.py DataExtractor, extract_data_from_html    *)
(*   - app/services/scraper.py save_course                                 *)
(* URLs are sequences of one-character strings so that normalisation,      *)
(* prefix, substring and suffix tests are computed as the code computes    *)
(* them.                                                                   *)
(***************************************************************************)
EXTENDS Integers, Sequences, FiniteSets, TLC

(***************************************************************************)
(* Bounds                                                                  *)
(***************************************************************************)
NWorkers == 2
MaxCourses == 1
NRequests == 2
MaxCalls == 2
MaxSaves == 3
NCourseUrls == 22

(***************************************************************************)
(* Program constants                                                       *)
(***************************************************************************)
SemaphoreSize == 20
DefaultMaxCourses == 50

Workers == 1..NWorkers
Requests == 1..NRequests

None == <<>>

(***************************************************************************)
(* Strings                                                                 *)
(***************************************************************************)
UpperChars == <<"A", "B", "D", "F", "G", "I", "P", "Z">>
LowerChars == <<"a", "b", "d", "f", "g", "i", "p", "z">>

LowerChar(c) ==
    IF \E i \in 1..Len(UpperChars) : UpperChars[i] = c
    THEN LowerChars[CHOOSE i \in 1..Len(UpperChars) : UpperChars[i] = c]
    ELSE c

\* str.lower()
Lower(s) == [i \in 1..Len(s) |-> LowerChar(s[i])]

\* str.startswith(p)
StartsWith(s, p) == Len(s) >= Len(p) /\ SubSeq(s, 1, Len(p)) = p

\* str.endswith(p)
EndsWith(s, p) == Len(s) >= Len(p) /\ SubSeq(s, Len(s) - Len(p) + 1, Len(s)) = p

\* p in s
Contains(s, p) ==
    \E i \in 1..(Len(s) - Len(p) + 1) : SubSeq(s, i, i + Len(p) - 1) = p

\* index of the first character of s, at or after position from, that is in
\* the set stops; Len(s) + 1 when there is none
FirstOf(s, from, stops) ==
    IF \E i \in from..Len(s) : s[i] \in stops
    THEN CHOOSE i \in from..Len(s) :
            s[i] \in stops /\ \A j \in from..(i - 1) : s[j] \notin stops
    ELSE Len(s) + 1

\* urldefrag(url)[0]
Defrag(url) == SubSeq(url, 1, FirstOf(url, 1, {"#"}) - 1)

\* str.rstrip("/")
RStripSlash(s) ==
    IF \E i \in 1..Len(s) : s[i] # "/"
    THEN SubSeq(s, 1, CHOOSE i \in 1..Len(s) :
                         s[i] # "/" /\ \A j \in (i + 1)..Len(s) : s[j] = "/")
    ELSE <<>>

normalize_url(url) == RStripSlash(Lower(Defrag(url)))

\* position just after "scheme://", 0 when the URL has no authority part
AuthorityStart(url) ==
    LET c == FirstOf(url, 1, {":", "/", "?", "#"}) IN
    IF c + 2 <= Len(url) /\ url[c] = ":" /\ url[c + 1] = "/" /\ url[c + 2] = "/"
    THEN c + 3
    ELSE 0

\* urlparse(url).netloc
get_domain(url) ==
    LET a == AuthorityStart(url) IN
    IF a = 0 THEN <<>>
    ELSE SubSeq(url, a, FirstOf(url, a, {"/", "?", "#"}) - 1)

\* urlparse(url).path
UrlPath(url) ==
    LET a == AuthorityStart(url) IN
    IF a = 0 THEN <<>>
    ELSE LET p == FirstOf(url, a, {"/", "?", "#"}) IN
         SubSeq(url, p, FirstOf(url, p, {"?", "#"}) - 1)

HttpPrefix == <<"h", "t", "t", "p", ":", "/", "/">>
HttpsPrefix == <<"h", "t", "t", "p", "s", ":", "/", "/">>

BlockedExtensions == {
    <<".", "p", "d", "f">>,
    <<".", "d", "o", "c">>,
    <<".", "d", "o", "c", "x">>,
    <<".", "j", "p", "g">>,
    <<".", "j", "p", "e", "g">>,
    <<".", "p", "n", "g">>,
    <<".", "g", "i", "f">>,
    <<".", "z", "i", "p">>,
    <<".", "r", "a", "r">>,
    <<".", "c", "s", "v">>,
    <<".", "x", "l", "s", "x">>,
    <<".", "p", "p", "t">>,
    <<".", "p", "p", "t", "x">> }

(***************************************************************************)
(* The web the crawler runs against                                        *)
(***************************************************************************)
JobDomain == <<"d">>

U_S == <<"h", "t", "t", "p", ":", "/", "/", "d">>
U_Sslash == <<"h", "t", "t", "p", ":", "/", "/", "d", "/">>
U_A == <<"h", "t", "t", "p", ":", "/", "/", "d", "/", "a">>
U_A2 == <<"h", "t", "t", "p", ":", "/", "/", "d", "/", "A", "/">>
U_B == <<"h", "t", "t", "p", ":", "/", "/", "d", "/", "b", "#", "f">>
U_BU == <<"h", "t", "t", "p", ":", "/", "/", "d", "/", "B">>
U_PDF == <<"h", "t", "t", "p", ":", "/", "/", "d", "/", "a", ".", "p", "d", "f">>
U_PDFQ == <<"h", "t", "t", "p", ":", "/", "/", "d", "/", "b", ".", "P", "D", "F", "?", "q">>
U_DOCX == <<"h", "t", "t", "p", ":", "/", "/", "d", "/", "a", ".", "d", "o", "c", "x">>
U_DIR == <<"h", "t", "t", "p", ":", "/", "/", "d", "/", ".", "z", "i", "p", "/", "a">>
U_E == <<"h", "t", "t", "p", ":", "/", "/", "e", "/", "a">>
U_MAIL == <<"m", "a", "i", "l", "t", "o", ":", "a">>

\* href lists (after urljoin) a fetched page may carry
LinkLists == {
    <<>>,
    <<U_A, U_A2>>,
    <<U_A, U_B>>,
    <<U_B, U_Sslash>>,
    <<U_PDF, U_PDFQ>>,
    <<U_DOCX, U_DIR>>,
    <<U_E, U_MAIL>> }

\* where a request may end after redirects, besides the requested URL
RedirectTargets == {U_BU, U_E}

\* what the page and the extraction of it yield
Pages ==
    [matches : {FALSE}, extracted : {"none"}, links : LinkLists]
        \cup [matches : {TRUE}, extracted : {"course", "none"}, links : LinkLists]

ScraperStatus == {"not_started", "queued", "in_progress", "completed", "failed", "cancelled"}

VARIABLES
    scraper_status,   \* Institution.scraper_status, the stored column ("absent": no row)
    status_before,    \* history: the stored status that the latest write replaced
    req,              \* the start requests being handled
    rq,               \* scraper_queue: the jobs enqueued and not yet taken
    job,              \* the job the queue worker runs
    crawl_pc,         \* position of that job
    institution,      \* the job's local: "unbound", "found" or "none"
    scraping_status,  \* the attribute the job assigns on its institution object
    start_url, max_courses, courses_found, visited_urls, url_queue, pending_urls,
    semaphore,
    pc, wurl, wfinal, \* per worker: position, url of process_url, response.url
    fetched,          \* history: the urls session.get was issued for
    refetched,        \* history: the urls session.get was issued for more than once
    start_matched,    \* history: the page of start_url matched a course selector
    saves,            \* history: number of course.save(db) calls of extract_course
    page_links,       \* the hrefs of a page whose links are being expanded one by one
    link_pos,         \* the position of the next of them
    target_fields,    \* the descriptor list handed to extract_data_from_html
    html_content,     \* the document it is handed, parsed
    extraction_rules, total_fields,  \* DataExtractor's fields after the latest compile
    extracted_fields, \* what _extract_fields returned in the latest call
    results,          \* history: what each call of extract_data_from_html returned
    courses,          \* the courses table written by extract_course
    saved,            \* history: the (url, institution_id) pairs extract_course saved
    collection,       \* the courses collection written by save_course
    savers,           \* the save_course calls under way
    provider_saved,   \* history: the (url, provider_id) pairs save_course saved
    tasks,            \* number of process_single_url tasks of scrape_courses at each position
    course_semaphore  \* value of the semaphore of scrape_courses

apiVars == <<scraper_status, status_before, req, rq>>
runVars == <<job, crawl_pc, institution, scraping_status>>
crawlerVars == <<start_url, max_courses, courses_found, visited_urls, url_queue, pending_urls,
                 semaphore, pc, wurl, wfinal>>
historyVars == <<fetched, refetched, start_matched, saves>>
linkVars == <<page_links, link_pos>>
extractVars == <<target_fields, html_content, extraction_rules, total_fields, extracted_fields,
                 results>>
storeVars == <<courses, saved, collection, savers, provider_saved>>
taskVars == <<tasks, course_semaphore>>
vars == <<apiVars, runVars, crawlerVars, historyVars, linkVars, extractVars, storeVars, taskVars>>

IdleRequest == [pc |-> "idle", kind |-> "none", urls |-> <<>>, cap |-> 0]

NoJob == [kind |-> "none"]

\* what select_one returns when nothing matches
NoElement == [present |-> FALSE, text |-> <<>>, hits |-> <<>>]

\* the position a process_single_url task of scrape_courses may be at
TaskPositions == {"new", "waiting", "fetching", "done"}

\* no extraction is under way
NoExtraction ==
    /\ target_fields = <<>>
    /\ html_content = NoElement
    /\ extraction_rules = <<>>
    /\ total_fields = 0
    /\ extracted_fields = [data |-> <<>>, extracted_count |-> 0]
    /\ results = <<>>

\* nothing was saved and no save is under way
NoStore ==
    /\ courses = <<>>
    /\ saved = <<>>
    /\ collection = <<>>
    /\ savers = <<>>
    /\ provider_saved = <<>>

\* the tasks of scrape_courses are not followed one by one
NoTasks ==
    /\ tasks = [p \in TaskPositions |-> 0]
    /\ course_semaphore = SemaphoreSize

(***************************************************************************)
(* Crawler                                                                 *)
(***************************************************************************)
\* should_process_url testing the extensions on the url as written
should_process_url_raw_case(url, visited, domain) ==
    IF ~(StartsWith(url, HttpPrefix) \/ StartsWith(url, HttpsPrefix)) THEN None
    ELSE LET normalized_url == normalize_url(url) IN
         IF normalized_url \in visited THEN None
         ELSE IF get_domain(normalized_url) # domain THEN None
         ELSE IF \E ext \in BlockedExtensions : Contains(url, ext) THEN None
         ELSE normalized_url

\* Crawler.should_process_url: the normalized url, or None
should_process_url(url, visited, domain) ==
    IF ~(StartsWith(url, HttpPrefix) \/ StartsWith(url, HttpsPrefix)) THEN None
    ELSE LET normalized_url == normalize_url(url) IN
         IF normalized_url \in visited THEN None
         ELSE IF get_domain(normalized_url) # domain THEN None
         ELSE IF \E ext \in BlockedExtensions : Contains(normalized_url, ext) THEN None
         ELSE normalized_url

\* the links of a page that the loop of process_url appends, in page order
RECURSIVE ExpandLinks(_, _, _)
ExpandLinks(links, visited, domain) ==
    IF links = <<>> THEN <<>>
    ELSE LET normalized == should_process_url(Head(links), visited, domain) IN
         (IF normalized # None THEN <<normalized>> ELSE <<>>)
            \o ExpandLinks(Tail(links), visited, domain)

\* Crawler.worker from the top of its loop to its next suspension, run on the
\* queue q, in-flight set pend, counter found and semaphore value sem: it
\* leaves the loop, sleeps, or pops a url and enters process_url up to the
\* session.get
WorkerLoop(w, q, pend, found, sem) ==
    IF found >= max_courses
    THEN /\ pc' = [pc EXCEPT ![w] = "exited"]
         /\ wurl' = [wurl EXCEPT ![w] = None]
         /\ url_queue' = q /\ pending_urls' = pend /\ semaphore' = sem
         /\ UNCHANGED <<fetched, refetched>>
    ELSE IF q = <<>>
    THEN /\ pc' = [pc EXCEPT ![w] = IF pend # {} THEN "sleep" ELSE "exited"]
         /\ wurl' = [wurl EXCEPT ![w] = None]
         /\ url_queue' = q /\ pending_urls' = pend /\ semaphore' = sem
         /\ UNCHANGED <<fetched, refetched>>
    ELSE LET url == Head(q) IN
         IF found >= max_courses
         THEN /\ pc' = [pc EXCEPT ![w] = "exited"]
              /\ wurl' = [wurl EXCEPT ![w] = None]
              /\ url_queue' = Tail(q) /\ pending_urls' = pend /\ semaphore' = sem
              /\ UNCHANGED <<fetched, refetched>>
         ELSE IF sem = 0
         THEN /\ pc' = [pc EXCEPT ![w] = "wait_semaphore"]
              /\ wurl' = [wurl EXCEPT ![w] = url]
              /\ url_queue' = Tail(q) /\ pending_urls' = pend /\ semaphore' = sem
              /\ UNCHANGED <<fetched, refetched>>
         ELSE /\ pc' = [pc EXCEPT ![w] = "fetching"]
              /\ wurl' = [wurl EXCEPT ![w] = url]
              /\ url_queue' = Tail(q)
              /\ pending_urls' = pend \cup {url}
              /\ semaphore' = sem - 1
              /\ fetched' = fetched \cup {url}
              /\ refetched' = IF url \in fetched THEN refetched \cup {url} ELSE refetched

\* a worker task starts running
WorkerStart(w) ==
    /\ crawl_pc = "running"
    /\ job.kind = "crawl"
    /\ pc[w] = "new"
    /\ WorkerLoop(w, url_queue, pending_urls, courses_found, semaphore)
    /\ UNCHANGED <<apiVars, runVars, start_url, max_courses, courses_found, visited_urls, wfinal,
                   start_matched, saves>>
    /\ UNCHANGED <<linkVars, extractVars, storeVars, taskVars>>

\* asyncio.sleep(0.1) of an idle worker is over
WorkerWake(w) ==
    /\ pc[w] = "sleep"
    /\ WorkerLoop(w, url_queue, pending_urls, courses_found, semaphore)
    /\ UNCHANGED <<apiVars, runVars, start_url, max_courses, courses_found, visited_urls, wfinal,
                   start_matched, saves>>
    /\ UNCHANGED <<linkVars, extractVars, storeVars, taskVars>>

\* FetchFail with no finally block: the url stays in pending_urls
FetchFailNoFinally(w) ==
    /\ pc[w] = "fetching"
    /\ visited_urls' = visited_urls \cup {wurl[w]}
    /\ WorkerLoop(w, url_queue, pending_urls, courses_found, semaphore + 1)
    /\ UNCHANGED <<apiVars, runVars, start_url, max_courses, courses_found, wfinal,
                   start_matched, saves>>
    /\ UNCHANGED <<linkVars, extractVars, storeVars, taskVars>>

\* session.get ends without a 200 response: another status, a timeout or
\* another exception; the finally block runs and the worker loops
FetchFail(w) ==
    /\ pc[w] = "fetching"
    /\ visited_urls' = visited_urls \cup {wurl[w]}
    /\ WorkerLoop(w, url_queue, pending_urls \ {wurl[w]}, courses_found, semaphore + 1)
    /\ UNCHANGED <<apiVars, runVars, start_url, max_courses, courses_found, wfinal,
                   start_matched, saves>>
    /\ UNCHANGED <<linkVars, extractVars, storeVars, taskVars>>

\* session.get answers 200, possibly after redirects; response.text() is awaited
FetchOk(w) ==
    /\ pc[w] = "fetching"
    /\ \E final_url \in {wurl[w]} \cup RedirectTargets :
          /\ visited_urls' = visited_urls
                                \cup {wurl[w], final_url, normalize_url(final_url)}
          /\ wfinal' = [wfinal EXCEPT ![w] = final_url]
    /\ pc' = [pc EXCEPT ![w] = "reading"]
    /\ UNCHANGED <<apiVars, runVars, start_url, max_courses, courses_found, url_queue, pending_urls,
                   semaphore, wurl, historyVars>>
    /\ UNCHANGED <<linkVars, extractVars, storeVars, taskVars>>

\* response.text() or the parse raises; the finally block runs and the worker loops
ReadFail(w) ==
    /\ pc[w] = "reading"
    /\ visited_urls' = visited_urls \cup {wurl[w]}
    /\ wfinal' = [wfinal EXCEPT ![w] = None]
    /\ WorkerLoop(w, url_queue, pending_urls \ {wurl[w]}, courses_found, semaphore + 1)
    /\ UNCHANGED <<apiVars, runVars, start_url, max_courses, courses_found,
                   start_matched, saves>>
    /\ UNCHANGED <<linkVars, extractVars, storeVars, taskVars>>

\* ReadOk counting every matching page, the cap not tested, and the worker
\* looping on the count it had read before
ReadOkUnchecked(w) ==
    /\ pc[w] = "reading"
    /\ \E page \in Pages :
          LET extract == page.matches
              found == IF extract THEN courses_found + 1 ELSE courses_found
              queue == url_queue \o ExpandLinks(page.links, visited_urls, JobDomain)
          IN  /\ courses_found' = found
              /\ saves' = IF extract /\ page.extracted = "course" THEN saves + 1 ELSE saves
              /\ start_matched' = (start_matched \/ (wurl[w] = start_url /\ page.matches))
              /\ visited_urls' = visited_urls \cup {wurl[w]}
              /\ wfinal' = [wfinal EXCEPT ![w] = None]
              /\ WorkerLoop(w, queue, pending_urls \ {wurl[w]}, courses_found, semaphore + 1)
    /\ UNCHANGED <<apiVars, runVars, max_courses, start_url>>
    /\ UNCHANGED <<linkVars, extractVars, storeVars, taskVars>>

\* the body arrives: selector match, extract_course, link expansion, finally
\* block, and the worker loops
ReadOk(w) ==
    /\ pc[w] = "reading"
    /\ \E page \in Pages :
          LET extract == page.matches /\ courses_found < max_courses
              found == IF extract THEN courses_found + 1 ELSE courses_found
              queue == url_queue \o ExpandLinks(page.links, visited_urls, JobDomain)
          IN  /\ courses_found' = found
              /\ saves' = IF extract /\ page.extracted = "course" THEN saves + 1 ELSE saves
              /\ start_matched' = (start_matched \/ (wurl[w] = start_url /\ page.matches))
              /\ visited_urls' = visited_urls \cup {wurl[w]}
              /\ wfinal' = [wfinal EXCEPT ![w] = None]
              /\ WorkerLoop(w, queue, pending_urls \ {wurl[w]}, found, semaphore + 1)
    /\ UNCHANGED <<apiVars, runVars, max_courses, start_url>>
    /\ UNCHANGED <<linkVars, extractVars, storeVars, taskVars>>

\* Crawler.__init__ for a request with the given start_url and max_courses
Crawler(url, cap) ==
    [start_url |-> normalize_url(url),
     max_courses |-> cap,
     courses_found |-> 0,
     visited_urls |-> {},
     url_queue |-> <<normalize_url(url)>>,
     pending_urls |-> {normalize_url(url)},
     semaphore |-> SemaphoreSize]

HistoryInit ==
    /\ fetched = {}
    /\ refetched = {}
    /\ start_matched = FALSE
    /\ saves = 0

\* Crawler.crawl up to the creation of the worker tasks
CrawlBegin ==
    /\ crawl_pc = "new"
    /\ job.kind = "crawl"
    /\ job' = job
    /\ \E loaded \in {"found", "none", "raises"} :
          \/ /\ loaded = "found"
             /\ institution' = "found"
             /\ scraping_status' = "in_progress"
             /\ crawl_pc' = "running"
          \/ /\ loaded = "none"
             /\ institution' = "none"
             /\ scraping_status' = scraping_status
             /\ crawl_pc' = "running"
          \/ /\ loaded = "raises"
             \* the except block reads the unbound local and raises in turn
             /\ institution' = "unbound"
             /\ scraping_status' = scraping_status
             /\ crawl_pc' = "raised"
    /\ UNCHANGED <<apiVars, crawlerVars, historyVars>>
    /\ UNCHANGED <<linkVars, extractVars, storeVars, taskVars>>

\* a worker task raises outside process_url (session set-up)
WorkerCrash(w) ==
    /\ crawl_pc = "running"
    /\ job.kind = "crawl"
    /\ pc[w] = "new"
    /\ pc' = [pc EXCEPT ![w] = "raised"]
    /\ UNCHANGED <<apiVars, runVars, start_url, max_courses, courses_found, visited_urls, url_queue,
                   pending_urls, semaphore, wurl, wfinal, historyVars>>
    /\ UNCHANGED <<linkVars, extractVars, storeVars, taskVars>>

\* asyncio.gather returns: every worker has left its loop
CrawlEnd ==
    /\ crawl_pc = "running"
    /\ job.kind = "crawl"
    /\ \A w \in Workers : pc[w] = "exited"
    /\ scraping_status' = IF institution = "found" THEN "completed" ELSE scraping_status
    /\ crawl_pc' = "done"
    /\ UNCHANGED <<apiVars, job, institution, crawlerVars, historyVars>>
    /\ UNCHANGED <<linkVars, extractVars, storeVars, taskVars>>

\* asyncio.gather raises the exception of a worker: the except block runs, and
\* the tasks still alive are cancelled when the event loop is closed
CrawlFail ==
    /\ crawl_pc = "running"
    /\ job.kind = "crawl"
    /\ \E w \in Workers : pc[w] = "raised"
    /\ scraping_status' = IF institution = "found" THEN "failed" ELSE scraping_status
    /\ crawl_pc' = "done"
    /\ pc' = [w \in Workers |-> IF pc[w] \in {"exited", "raised"} THEN pc[w] ELSE "cancelled"]
    /\ UNCHANGED <<apiVars, job, institution, start_url, max_courses, courses_found, visited_urls, url_queue,
                   pending_urls, semaphore, wurl, wfinal, historyVars>>
    /\ UNCHANGED <<linkVars, extractVars, storeVars, taskVars>>

(***************************************************************************)
(* One crawl job, from the moment the queue worker calls Crawler.crawl     *)
(***************************************************************************)
InitCrawl ==
    /\ scraper_status = "queued"
    /\ status_before = "none"
    /\ req = [r \in Requests |-> IdleRequest]
    /\ rq = <<>>
    /\ crawl_pc = "new"
    /\ institution = "unbound"
    /\ scraping_status = "unset"
    /\ \E url \in {U_S, U_Sslash}, cap \in 1..MaxCourses :
          LET scraper == Crawler(url, cap) IN
          /\ job = [kind |-> "crawl", scraper |-> scraper]
          /\ start_url = scraper.start_url
          /\ max_courses = scraper.max_courses
          /\ courses_found = scraper.courses_found
          /\ visited_urls = scraper.visited_urls
          /\ url_queue = scraper.url_queue
          /\ pending_urls = scraper.pending_urls
          /\ semaphore = scraper.semaphore
    /\ pc = [w \in Workers |-> "new"]
    /\ wurl = [w \in Workers |-> None]
    /\ wfinal = [w \in Workers |-> None]
    /\ HistoryInit
    /\ page_links = <<>>
    /\ link_pos = 1
    /\ NoExtraction /\ NoStore /\ NoTasks

NextCrawl ==
    \/ CrawlBegin
    \/ \E w \in Workers : WorkerStart(w)
    \/ \E w \in Workers : WorkerWake(w)
    \/ \E w \in Workers : FetchFail(w)
    \/ \E w \in Workers : FetchOk(w)
    \/ \E w \in Workers : ReadFail(w)
    \/ \E w \in Workers : ReadOk(w)
    \/ \E w \in Workers : WorkerCrash(w)
    \/ CrawlEnd
    \/ CrawlFail

SpecCrawl == InitCrawl /\ [][NextCrawl]_vars

\* one crawl job under the scheduling of the event loop: a task that can
\* run is run, a sleep ends, and every fetch and every read of a body
\* returns or fails (each request has a timeout of 30 seconds)
FairCrawl ==
    /\ WF_vars(CrawlBegin)
    /\ WF_vars(CrawlEnd)
    /\ WF_vars(CrawlFail)
    /\ \A w \in Workers :
          /\ WF_vars(WorkerStart(w))
          /\ WF_vars(WorkerWake(w))
          /\ WF_vars(FetchFail(w) \/ FetchOk(w))
          /\ WF_vars(ReadFail(w) \/ ReadOk(w))

SpecCrawlFair == SpecCrawl /\ FairCrawl

(***************************************************************************)
(* Start requests (app/api/institution.py) and the queue worker            *)
(***************************************************************************)
\* the column default of Institution.scraper_status
DefaultStatus == "queued"

IsActiveInProgressOnly(status) == status = "in_progress"

IsActiveQueuedOnly(status) == status = "queued"

\* the test both start handlers make on the status they read
IsActive(status) == status \in {"queued", "in_progress"}

\* the bodies a start request may carry; urls is start_url or course_urls
StartRequests ==
    [kind : {"crawl"}, urls : {<<U_Sslash>>, <<U_E>>}, cap : {DefaultMaxCourses}]
        \cup [kind : {"courses"}, urls : {<<U_A>>, <<U_A, U_E>>}, cap : {0}]

\* what the handler answers after reading the institution, "checked" when it goes on
Checked(status, request) ==
    IF status = "absent" THEN "not_found"
    ELSE IF IsActive(status) THEN "rejected"
    ELSE IF \E i \in 1..Len(request.urls) : get_domain(request.urls[i]) # JobDomain
    THEN "bad_domain"
    ELSE "checked"

\* the job the handler passes to scraper_queue.enqueue
JobOf(request) ==
    IF request.kind = "crawl"
    THEN [kind |-> "crawl", scraper |-> Crawler(request.urls[1], request.cap)]
    ELSE [kind |-> "courses", course_urls |-> request.urls]

\* add_institution
AddInstitution ==
    /\ scraper_status = "absent"
    /\ scraper_status' = DefaultStatus
    /\ UNCHANGED <<status_before, req, rq, runVars, crawlerVars, historyVars>>
    /\ UNCHANGED <<linkVars, extractVars, storeVars, taskVars>>

\* scrape_institution / scrape_institution_courses: Institution.get and the checks
HandlerCheck(r) ==
    /\ req[r].pc = "idle"
    /\ \E request \in StartRequests :
          req' = [req EXCEPT ![r] = [pc |-> Checked(scraper_status, request),
                                     kind |-> request.kind,
                                     urls |-> request.urls,
                                     cap |-> request.cap]]
    /\ UNCHANGED <<scraper_status, status_before, rq, runVars, crawlerVars, historyVars>>
    /\ UNCHANGED <<linkVars, extractVars, storeVars, taskVars>>

\* scraper_queue.enqueue
HandlerEnqueue(r) ==
    /\ req[r].pc = "checked"
    /\ rq' = Append(rq, JobOf(req[r]))
    /\ req' = [req EXCEPT ![r].pc = "enqueued"]
    /\ UNCHANGED <<scraper_status, status_before, runVars, crawlerVars, historyVars>>
    /\ UNCHANGED <<linkVars, extractVars, storeVars, taskVars>>

\* institution.scraper_status = ScraperStatus.queued; institution.save(db)
HandlerSave(r) ==
    /\ req[r].pc = "enqueued"
    /\ scraper_status' = "queued"
    /\ status_before' = scraper_status
    /\ req' = [req EXCEPT ![r].pc = "accepted"]
    /\ UNCHANGED <<rq, runVars, crawlerVars, historyVars>>
    /\ UNCHANGED <<linkVars, extractVars, storeVars, taskVars>>

\* the response is sent
HandlerReturn(r) ==
    /\ req[r].pc \in {"not_found", "rejected", "bad_domain", "accepted"}
    /\ req' = [req EXCEPT ![r] = IdleRequest]
    /\ UNCHANGED <<scraper_status, status_before, rq, runVars, crawlerVars, historyVars>>
    /\ UNCHANGED <<linkVars, extractVars, storeVars, taskVars>>

\* the queue worker takes the next job
JobTake ==
    /\ crawl_pc \in {"idle", "done", "raised"}
    /\ rq # <<>>
    /\ job' = Head(rq)
    /\ rq' = Tail(rq)
    /\ crawl_pc' = "new"
    /\ institution' = "unbound"
    /\ scraping_status' = "unset"
    /\ IF Head(rq).kind = "crawl"
       THEN LET scraper == Head(rq).scraper IN
            /\ start_url' = scraper.start_url
            /\ max_courses' = scraper.max_courses
            /\ courses_found' = scraper.courses_found
            /\ visited_urls' = scraper.visited_urls
            /\ url_queue' = scraper.url_queue
            /\ pending_urls' = scraper.pending_urls
            /\ semaphore' = scraper.semaphore
       ELSE UNCHANGED <<start_url, max_courses, courses_found, visited_urls, url_queue,
                        pending_urls, semaphore>>
    /\ pc' = [w \in Workers |-> "new"]
    /\ wurl' = [w \in Workers |-> None]
    /\ wfinal' = [w \in Workers |-> None]
    /\ fetched' = {} /\ refetched' = {} /\ start_matched' = FALSE /\ saves' = 0
    /\ UNCHANGED <<scraper_status, status_before, req>>
    /\ UNCHANGED <<linkVars, extractVars, storeVars, taskVars>>

\* the worker tasks of a crawl taken as one step: all leave their loops, or
\* one of them raises
RunWorkers ==
    /\ crawl_pc = "running"
    /\ job.kind = "crawl"
    /\ \A w \in Workers : pc[w] = "new"
    /\ \E outcome \in {"exited", "raised"} :
          pc' = [w \in Workers |-> IF w = 1 THEN outcome ELSE "exited"]
    /\ UNCHANGED <<apiVars, runVars, start_url, max_courses, courses_found, visited_urls,
                   url_queue, pending_urls, semaphore, wurl, wfinal, historyVars>>
    /\ UNCHANGED <<linkVars, extractVars, storeVars, taskVars>>

\* scrape_courses up to the creation of the tasks
ScrapeCoursesBegin ==
    /\ crawl_pc = "new"
    /\ job.kind = "courses"
    /\ job' = job
    /\ \E loaded \in {"found", "none", "raises"} :
          \/ /\ loaded = "found"
             /\ institution' = "found"
             /\ scraping_status' = "in_progress"
             /\ crawl_pc' = "running"
          \/ /\ loaded = "none"
             /\ institution' = "none"
             /\ scraping_status' = scraping_status
             /\ crawl_pc' = "running"
          \/ /\ loaded = "raises"
             \* the except block reads the unbound local and raises in turn
             /\ institution' = "unbound"
             /\ scraping_status' = scraping_status
             /\ crawl_pc' = "raised"
    /\ UNCHANGED <<apiVars, crawlerVars, historyVars>>
    /\ UNCHANGED <<linkVars, extractVars, storeVars, taskVars>>

\* scrape_courses: gather(return_exceptions=True) returns and the status is set
ScrapeCoursesEnd ==
    /\ crawl_pc = "running"
    /\ job.kind = "courses"
    /\ \A p \in TaskPositions \ {"done"} : tasks[p] = 0
    /\ scraping_status' = IF institution = "found" THEN "completed" ELSE scraping_status
    /\ crawl_pc' = "done"
    /\ UNCHANGED <<apiVars, job, institution, crawlerVars, historyVars>>
    /\ UNCHANGED <<linkVars, extractVars, storeVars, taskVars>>

InitApi ==
    /\ scraper_status \in ScraperStatus \cup {"absent"}
    /\ status_before = "none"
    /\ req = [r \in Requests |-> IdleRequest]
    /\ rq = <<>>
    /\ job = NoJob
    /\ crawl_pc = "idle"
    /\ institution = "unbound"
    /\ scraping_status = "unset"
    /\ start_url = None
    /\ max_courses = 0
    /\ courses_found = 0
    /\ visited_urls = {}
    /\ url_queue = <<>>
    /\ pending_urls = {}
    /\ semaphore = SemaphoreSize
    /\ pc = [w \in Workers |-> "new"]
    /\ wurl = [w \in Workers |-> None]
    /\ wfinal = [w \in Workers |-> None]
    /\ HistoryInit
    /\ page_links = <<>>
    /\ link_pos = 1
    /\ NoExtraction /\ NoStore /\ NoTasks

NextApi ==
    \/ AddInstitution
    \/ \E r \in Requests : HandlerCheck(r)
    \/ \E r \in Requests : HandlerEnqueue(r)
    \/ \E r \in Requests : HandlerSave(r)
    \/ \E r \in Requests : HandlerReturn(r)
    \/ JobTake
    \/ CrawlBegin
    \/ RunWorkers
    \/ CrawlEnd
    \/ CrawlFail
    \/ ScrapeCoursesBegin
    \/ ScrapeCoursesEnd

SpecApi == InitApi /\ [][NextApi]_vars

(***************************************************************************)
(* Link expansion on its own: the loop over the links of one page          *)
(***************************************************************************)
\* the urls a page may link to: scheme, host, directory, file, extension and
\* what follows the path
LinkSchemes == {HttpPrefix, HttpsPrefix, <<"f", "t", "p", ":", "/", "/">>}
LinkHosts == {<<"d">>, <<"e">>}
LinkDirs == {<<>>, <<"/", "a">>, <<"/", ".", "z", "i", "p">>}
LinkFiles == {<<>>, <<"/", "b">>, <<"/", "B">>}
LinkExtensions == {<<>>, <<".", "p", "d", "f">>, <<".", "P", "d", "F">>,
                   <<".", "g", "i", "f">>, <<".", "Z", "I", "P">>}
LinkTails == {<<>>, <<"/">>, <<"?", "q">>, <<"#", "f">>}

LinkUniverse ==
    {s \o h \o d \o f \o e \o t :
        s \in LinkSchemes, h \in LinkHosts, d \in LinkDirs, f \in LinkFiles,
        e \in LinkExtensions, t \in LinkTails}

\* one iteration of the loop over soup.find_all("a", href=True)
ExpandLink ==
    /\ link_pos <= Len(page_links)
    /\ LET normalized == should_process_url(page_links[link_pos], visited_urls, JobDomain) IN
       url_queue' = IF normalized # None THEN Append(url_queue, normalized) ELSE url_queue
    /\ link_pos' = link_pos + 1
    /\ UNCHANGED <<apiVars, runVars, start_url, max_courses, courses_found, visited_urls,
                   pending_urls, semaphore, pc, wurl, wfinal, historyVars, page_links>>
    /\ UNCHANGED <<extractVars, storeVars, taskVars>>

InitLinks ==
    /\ scraper_status = "in_progress"
    /\ status_before = "none"
    /\ req = [r \in Requests |-> IdleRequest]
    /\ rq = <<>>
    /\ job = [kind |-> "crawl", scraper |-> Crawler(U_S, 1)]
    /\ crawl_pc = "running"
    /\ institution = "found"
    /\ scraping_status = "in_progress"
    /\ start_url = U_S
    /\ max_courses = 1
    /\ courses_found = 0
    /\ visited_urls \in {{U_S}, {U_S, normalize_url(U_A)}}
    /\ url_queue = <<>>
    /\ pending_urls = {U_S}
    /\ semaphore = SemaphoreSize - 1
    /\ pc = [w \in Workers |-> IF w = 1 THEN "reading" ELSE "sleep"]
    /\ wurl = [w \in Workers |-> IF w = 1 THEN U_S ELSE None]
    /\ wfinal = [w \in Workers |-> IF w = 1 THEN U_S ELSE None]
    /\ fetched = {U_S} /\ refetched = {} /\ start_matched = FALSE /\ saves = 0
    /\ page_links \in {<<u, v>> : u \in LinkUniverse, v \in {U_A2, U_PDFQ}}
    /\ link_pos = 1
    /\ NoExtraction /\ NoStore /\ NoTasks

NextLinks == ExpandLink

SpecLinks == InitLinks /\ [][NextLinks]_vars

(***************************************************************************)
(* Field extraction (app/services/extraction.py)                           *)
(***************************************************************************)
\* a selector on which soup.select raises ValueError
MalformedSelector == "["

\* DataExtractor._validate_selector
_validate_selector(selector) == selector # "" /\ selector # MalformedSelector

\* _get_valid_fallback taking the first selector of the list unvalidated
_get_first_fallback(fallback_selectors) ==
    IF fallback_selectors = <<>> THEN "" ELSE Head(fallback_selectors)

\* DataExtractor._get_valid_fallback: the first valid selector of the list;
\* "" stands for None, which the caller tests with "not"
RECURSIVE _get_valid_fallback(_)
_get_valid_fallback(fallback_selectors) ==
    IF fallback_selectors = <<>> THEN ""
    ELSE IF _validate_selector(Head(fallback_selectors)) THEN Head(fallback_selectors)
    ELSE _get_valid_fallback(Tail(fallback_selectors))

\* the descriptor once a fallback is written into it, its fallback list emptied
SubstitutedDroppingFallbacks(field, valid_selector, nested_fields) ==
    IF field.primary_selector = valid_selector
    THEN [field EXCEPT !.nested_fields = nested_fields]
    ELSE [field EXCEPT !.primary_selector = valid_selector,
                       !.fallback_selectors = <<>>,
                       !.nested_fields = nested_fields]

\* the descriptor as the loop body of _create_extraction_rules leaves it:
\* field["primary_selector"] = valid_selector, its nested descriptors as the
\* recursive call left them
Substituted(field, valid_selector, nested_fields) ==
    [field EXCEPT !.primary_selector = valid_selector,
                  !.nested_fields = nested_fields]

\* DataExtractor._create_extraction_rules on a descriptor list: the rules,
\* the count, and the descriptor list as the call leaves it.  A rule's
\* nested_fields is <<>> both for None and for the empty list.
RECURSIVE _create_extraction_rules(_)
_create_extraction_rules(fields) ==
    IF fields = <<>> THEN [rules |-> <<>>, count |-> 0, fields |-> <<>>]
    ELSE LET field == Head(fields)
             valid_selector ==
                 IF _validate_selector(field.primary_selector)
                 THEN field.primary_selector
                 ELSE _get_valid_fallback(field.fallback_selectors)
             rest == _create_extraction_rules(Tail(fields))
         IN  IF valid_selector = ""
             THEN [rules |-> rest.rules,
                   count |-> 1 + rest.count,
                   fields |-> <<field>> \o rest.fields]
             ELSE LET nested ==
                          IF field.nested_fields # <<>>
                          THEN _create_extraction_rules(field.nested_fields)
                          ELSE [rules |-> <<>>, count |-> 1, fields |-> <<>>]
                      left == Substituted(field, valid_selector, nested.fields)
                      rule == [name |-> field.name,
                               primary_selector |-> left.primary_selector,
                               fallback_selectors |-> field.fallback_selectors,
                               data_type |-> field.data_type,
                               nested_fields |-> nested.rules]
                  IN  [rules |-> <<rule>> \o rest.rules,
                       count |-> nested.count + rest.count,
                       fields |-> <<left>> \o rest.fields]

\* element.select_one(selector): the first element under element that the
\* selector matches
select_one(element, selector) ==
    IF selector \in DOMAIN element.hits THEN element.hits[selector] ELSE NoElement

DigitChars == <<"0", "1", "2", "3", "4", "5", "6", "7", "8", "9">>

\* str.isdigit on one character
IsDigit(c) == \E i \in 1..Len(DigitChars) : DigitChars[i] = c

DigitValue(c) == (CHOOSE i \in 1..Len(DigitChars) : DigitChars[i] = c) - 1

\* int(s) for a non-empty string of digits
RECURSIVE ToInt(_)
ToInt(s) ==
    IF s = <<>> THEN 0
    ELSE 10 * ToInt(SubSeq(s, 1, Len(s) - 1)) + DigitValue(s[Len(s)])

\* "".join(filter(str.isdigit, value))
DigitsOf(value) == SelectSeq(value, IsDigit)

IsDigitOrDot(c) == IsDigit(c) \/ c = "."

\* "".join(filter(lambda x: x.isdigit() or x == ".", value))
DigitsAndDotsOf(value) == SelectSeq(value, IsDigitOrDot)

\* a string without its trailing zeros
RECURSIVE StripZeros(_)
StripZeros(s) ==
    IF s # <<>> /\ s[Len(s)] = "0" THEN StripZeros(SubSeq(s, 1, Len(s) - 1)) ELSE s

\* float(s) for a string of digits and dots: it fails unless s has a digit
\* and at most one dot; the value is the whole part and the decimals
ToFloat(s) ==
    LET dot == FirstOf(s, 1, {"."})
        whole == SubSeq(s, 1, dot - 1)
        decimals == SubSeq(s, dot + 1, Len(s))
    IN  IF DigitsOf(s) = <<>> \/ Len(s) - Len(DigitsOf(s)) > 1
        THEN [ok |-> FALSE, value |-> 0]
        ELSE [ok |-> TRUE,
              value |-> [whole |-> ToInt(whole), decimals |-> StripZeros(decimals)]]

\* _convert_value giving 0 where the parse of a number fails
_convert_value_or_zero(value, data_type) ==
    IF data_type = "integer"
    THEN [ok |-> TRUE, value |-> ToInt(DigitsOf(value))]
    ELSE IF data_type = "float"
    THEN IF ToFloat(DigitsAndDotsOf(value)).ok THEN ToFloat(DigitsAndDotsOf(value))
         ELSE [ok |-> TRUE, value |-> [whole |-> 0, decimals |-> <<>>]]
    ELSE IF data_type = "boolean"
    THEN [ok |-> TRUE,
          value |-> Lower(value) \in {<<"t", "r", "u", "e">>, <<"y", "e", "s">>, <<"1">>}]
    ELSE [ok |-> TRUE, value |-> value]

\* DataExtractor._convert_value; ok is FALSE where it returns None
_convert_value(value, data_type) ==
    IF data_type = "integer"
    THEN IF DigitsOf(value) = <<>>
         THEN [ok |-> FALSE, value |-> 0]
         ELSE [ok |-> TRUE, value |-> ToInt(DigitsOf(value))]
    ELSE IF data_type = "float" THEN ToFloat(DigitsAndDotsOf(value))
    ELSE IF data_type = "boolean"
    THEN [ok |-> TRUE,
          value |-> Lower(value) \in {<<"t", "r", "u", "e">>, <<"y", "e", "s">>, <<"1">>}]
    ELSE [ok |-> TRUE, value |-> value]

\* the loop over rule.fallback_selectors running to its end without break:
\* the target is that of the last selector that matches
RECURSIVE FallbackTargetLast(_, _)
FallbackTargetLast(element, fallback_selectors) ==
    IF fallback_selectors = <<>> THEN NoElement
    ELSE LET last == fallback_selectors[Len(fallback_selectors)]
             target == IF _validate_selector(last) THEN select_one(element, last)
                       ELSE NoElement
         IN  IF target.present THEN target
             ELSE FallbackTargetLast(element,
                                     SubSeq(fallback_selectors, 1, Len(fallback_selectors) - 1))

\* the target the loop over rule.fallback_selectors leaves
RECURSIVE FallbackTarget(_, _)
FallbackTarget(element, fallback_selectors) ==
    IF fallback_selectors = <<>> THEN NoElement
    ELSE LET target == IF _validate_selector(Head(fallback_selectors))
                       THEN select_one(element, Head(fallback_selectors))
                       ELSE NoElement
         IN  IF target.present THEN target
             ELSE FallbackTarget(element, Tail(fallback_selectors))

\* DataExtractor._extract_fields: the data and the extracted count
RECURSIVE _extract_fields(_, _)
_extract_fields(element, rules) ==
    IF rules = <<>> THEN [data |-> <<>>, extracted_count |-> 0]
    ELSE LET rule == Head(rules)
             primary == select_one(element, rule.primary_selector)
             target == IF ~primary.present /\ rule.fallback_selectors # <<>>
                       THEN FallbackTarget(element, rule.fallback_selectors)
                       ELSE primary
             nested == _extract_fields(target, rule.nested_fields)
             converted == _convert_value(target.text, rule.data_type)
             rest == _extract_fields(element, Tail(rules))
         IN  IF ~target.present THEN rest
             ELSE IF rule.nested_fields # <<>>
             THEN IF DOMAIN nested.data # {}
                  THEN [data |-> rest.data @@ (rule.name :> nested.data),
                        extracted_count |-> nested.extracted_count + rest.extracted_count]
                  ELSE rest
             ELSE IF converted.ok
             THEN [data |-> rest.data @@ (rule.name :> converted.value),
                   extracted_count |-> 1 + rest.extracted_count]
             ELSE rest

\* the number of selectors the loop over rule.fallback_selectors passes to
\* _validate_selector before it breaks or ends
RECURSIVE FallbackValidations(_, _)
FallbackValidations(element, fallback_selectors) ==
    IF fallback_selectors = <<>> THEN 0
    ELSE IF /\ _validate_selector(Head(fallback_selectors))
            /\ select_one(element, Head(fallback_selectors)).present
    THEN 1
    ELSE 1 + FallbackValidations(element, Tail(fallback_selectors))

\* the number of calls of _validate_selector that _extract_fields makes
RECURSIVE ExtractValidations(_, _)
ExtractValidations(element, rules) ==
    IF rules = <<>> THEN 0
    ELSE LET rule == Head(rules)
             primary == select_one(element, rule.primary_selector)
             tried == ~primary.present /\ rule.fallback_selectors # <<>>
             target == IF tried THEN FallbackTarget(element, rule.fallback_selectors)
                       ELSE primary
         IN  (IF tried THEN FallbackValidations(element, rule.fallback_selectors) ELSE 0)
                + (IF target.present /\ rule.nested_fields # <<>>
                   THEN ExtractValidations(target, rule.nested_fields)
                   ELSE 0)
                + ExtractValidations(element, Tail(rules))

\* what extract_data returns: None, or the data
Returned(kind, data) == [returned |-> kind, data |-> data]

\* extract_data with a threshold of one half
extract_data_half(element, rules, total) ==
    LET extracted == _extract_fields(element, rules) IN
    IF 2 * extracted.extracted_count >= total
    THEN Returned("data", extracted.data)
    ELSE Returned("None", <<>>)

\* DataExtractor.extract_data for an extractor with the given rules and
\* total_fields: total_extracted_fields >= total_fields * 0.75
extract_data(element, rules, total) ==
    LET extracted == _extract_fields(element, rules) IN
    IF 4 * extracted.extracted_count >= 3 * total
    THEN Returned("data", extracted.data)
    ELSE Returned("None", <<>>)

\* the descriptors and documents extract_data_from_html is called with
Field(name, primary_selector, fallback_selectors, data_type, nested_fields) ==
    [name |-> name,
     primary_selector |-> primary_selector,
     fallback_selectors |-> fallback_selectors,
     data_type |-> data_type,
     nested_fields |-> nested_fields]

TitleFields ==
    {Field("title", p, f, "string", <<>>) :
        p \in {"h1.title", ".t", "", MalformedSelector},
        f \in {<<>>, <<"h1">>, <<MalformedSelector, "h1">>, <<"h1.title", "h1">>}}

EctsFields ==
    {Field("ects", p, <<>>, t, <<>>) :
        p \in {".ects", MalformedSelector}, t \in {"integer", "float"}}

NestedFieldLists ==
    {<<Field("n", ".n", <<>>, "integer", <<>>), Field("m", ".m", <<>>, "string", <<>>)>>,
     <<Field("n", ".n", <<>>, "integer", <<>>), Field("m", "", <<>>, "string", <<>>)>>,
     <<Field("n", MalformedSelector, <<>>, "integer", <<>>)>>,
     <<Field("n", MalformedSelector, <<"", ".n">>, "integer", <<>>),
       Field("m", ".m", <<>>, "string", <<>>)>>}

GroupFields == {Field("g", ".g", <<>>, "object", n) : n \in NestedFieldLists}

FieldLists ==
    {<<>>}
        \cup {<<t, e>> : t \in TitleFields, e \in EctsFields}
        \cup {<<t, e, g>> : t \in TitleFields, e \in EctsFields, g \in GroupFields}

T_DS == <<"D", "S">>
T_30E == <<"3", "0", " ", "E">>
T_123 == <<"1", ".", "2", ".", "3">>
T_X == <<"X">>
T_250 == <<"2", ".", "5", "0">>

\* an element with a text and nothing under it
Leaf(text) == [present |-> TRUE, text |-> text, hits |-> <<>>]

\* the elements a document may have for the selector .g
GroupElements ==
    {[present |-> TRUE, text |-> T_30E, hits |-> (".n" :> n) @@ (".m" :> m)] :
        n \in {NoElement, Leaf(T_30E)}, m \in {NoElement, Leaf(T_DS)}}

\* the parsed documents: what each selector matches first; an element that
\* h1.title matches is an h1, the first h1 may be another element, and
\* nothing matches .t
Documents ==
    {d \in {[present |-> TRUE, text |-> <<>>,
             hits |-> ("h1.title" :> t) @@ ("h1" :> h) @@ (".ects" :> e) @@ (".g" :> g)] :
                t \in {NoElement, Leaf(T_DS)},
                h \in {NoElement, Leaf(T_DS), Leaf(T_X)},
                e \in {NoElement, Leaf(T_30E), Leaf(T_DS), Leaf(T_123), Leaf(T_250)},
                g \in {NoElement} \cup GroupElements} :
        d.hits["h1.title"].present => d.hits["h1"].present}

\* extract_data_from_html(html_content, target_fields): DataExtractor compiles
\* the descriptors, writing the fallbacks it substitutes into them, and
\* extract_data runs on the document
ExtractDataFromHtml ==
    /\ Len(results) < MaxCalls
    /\ LET compiled == _create_extraction_rules(target_fields) IN
       /\ target_fields' = compiled.fields
       /\ extraction_rules' = compiled.rules
       /\ total_fields' = compiled.count
       /\ extracted_fields' = _extract_fields(html_content, compiled.rules)
       /\ results' = Append(results,
                            extract_data(html_content, compiled.rules, compiled.count))
    /\ UNCHANGED <<html_content, apiVars, runVars, crawlerVars, historyVars, linkVars,
                   storeVars, taskVars>>

\* no request, no job and no crawl is under way
NoCrawl ==
    /\ scraper_status = "not_started"
    /\ status_before = "none"
    /\ req = [r \in Requests |-> IdleRequest]
    /\ rq = <<>>
    /\ job = NoJob
    /\ crawl_pc = "idle"
    /\ institution = "unbound"
    /\ scraping_status = "unset"
    /\ start_url = None
    /\ max_courses = 0
    /\ courses_found = 0
    /\ visited_urls = {}
    /\ url_queue = <<>>
    /\ pending_urls = {}
    /\ semaphore = SemaphoreSize
    /\ pc = [w \in Workers |-> "new"]
    /\ wurl = [w \in Workers |-> None]
    /\ wfinal = [w \in Workers |-> None]
    /\ HistoryInit
    /\ page_links = <<>>
    /\ link_pos = 1

InitExtract ==
    /\ NoCrawl /\ NoStore /\ NoTasks
    /\ target_fields \in FieldLists
    /\ html_content \in Documents
    /\ extraction_rules = <<>>
    /\ total_fields = 0
    /\ extracted_fields = [data |-> <<>>, extracted_count |-> 0]
    /\ results = <<>>

NextExtract == ExtractDataFromHtml

SpecExtract == InitExtract /\ [][NextExtract]_vars

(***************************************************************************)
(* Persisting a course: extract_course (app/core/scraper.py) and           *)
(* save_course (app/services/scraper.py)                                   *)
(***************************************************************************)
Institutions == {1, 2}

\* the urls courses are saved under
StoreUrls == {U_A, U_BU}

\* what the extraction gives for a page, as far as it is told apart here
Titles == {"t1", "t2"}

\* position of the first element of table with the url, 0 when there is none
FirstWithUrl(table, url) ==
    IF \E k \in 1..Len(table) : table[k].url = url
    THEN CHOOSE k \in 1..Len(table) :
            table[k].url = url /\ \A j \in 1..(k - 1) : table[j].url # url
    ELSE 0

\* find_one({"url": url, "provider_id": provider_id}): position of the first
\* document with both, 0 when there is none
FindOne(docs, url, provider_id) ==
    IF \E k \in 1..Len(docs) : docs[k].url = url /\ docs[k].provider_id = provider_id
    THEN CHOOSE k \in 1..Len(docs) :
            /\ docs[k].url = url /\ docs[k].provider_id = provider_id
            /\ \A j \in 1..(k - 1) :
                  ~(docs[j].url = url /\ docs[j].provider_id = provider_id)
    ELSE 0

\* how many saves were made or begun
SavesBegun ==
    Len(saved) + Len(provider_saved)
        + Cardinality({w \in DOMAIN savers : savers[w].pc = "found"})

\* extract_course from "if db:" on: Course.get(db, url=url), then the course
\* found is overwritten with course_data, or a new one is made; course.save(db)
ExtractCourseSave ==
    /\ SavesBegun < MaxSaves
    /\ \E institution_id \in Institutions, url \in StoreUrls, title \in Titles :
          LET existing_course == FirstWithUrl(courses, url) IN
          /\ courses' = IF existing_course # 0
                        THEN [courses EXCEPT ![existing_course].title = title]
                        ELSE Append(courses, [url |-> url,
                                              institution_id |-> institution_id,
                                              title |-> title])
          /\ saved' = Append(saved, <<url, institution_id>>)
    /\ UNCHANGED <<collection, savers, provider_saved>>
    /\ UNCHANGED <<apiVars, runVars, crawlerVars, historyVars, linkVars, extractVars, taskVars>>

IdleSaver == [pc |-> "idle", url |-> None, provider_id |-> 0, title |-> "", existing_course |-> 0]

\* save_course up to the answer of find_one
SaveCourseFind(w) ==
    /\ SavesBegun < MaxSaves
    /\ savers[w].pc = "idle"
    /\ \E provider_id \in Institutions, url \in StoreUrls, title \in Titles :
          savers' = [savers EXCEPT ![w] =
                        [pc |-> "found", url |-> url, provider_id |-> provider_id,
                         title |-> title,
                         existing_course |-> FindOne(collection, url, provider_id)]]
    /\ UNCHANGED <<courses, saved, collection, provider_saved>>
    /\ UNCHANGED <<apiVars, runVars, crawlerVars, historyVars, linkVars, extractVars, taskVars>>

\* save_course from there: update_one by _id, or insert_one
SaveCourseWrite(w) ==
    /\ savers[w].pc = "found"
    /\ LET course_data == [url |-> savers[w].url,
                           provider_id |-> savers[w].provider_id,
                           title |-> savers[w].title]
       IN  collection' = IF savers[w].existing_course # 0
                         THEN [collection EXCEPT ![savers[w].existing_course] = course_data]
                         ELSE Append(collection, course_data)
    /\ provider_saved' = Append(provider_saved, <<savers[w].url, savers[w].provider_id>>)
    /\ savers' = [savers EXCEPT ![w] = IdleSaver]
    /\ UNCHANGED <<courses, saved>>
    /\ UNCHANGED <<apiVars, runVars, crawlerVars, historyVars, linkVars, extractVars, taskVars>>

InitStore ==
    /\ NoCrawl /\ NoExtraction /\ NoTasks
    /\ courses = <<>>
    /\ saved = <<>>
    /\ collection = <<>>
    /\ savers = [w \in Workers |-> IdleSaver]
    /\ provider_saved = <<>>

NextStore ==
    \/ ExtractCourseSave
    \/ \E w \in Workers : SaveCourseFind(w)
    \/ \E w \in Workers : SaveCourseWrite(w)

SpecStore == InitStore /\ [][NextStore]_vars

(***************************************************************************)
(* Properties of one crawl                                                 *)
(***************************************************************************)
\* C1: in a crawl, session.get is issued at most once for each normalized
\* url, however many links lead to it and whenever they are discovered
EachUrlFetchedOnce == refetched = {}

\* C7: at every moment courses_found equals the number of course records the
\* crawl has persisted
FoundEqualsPersisted == courses_found = saves

\* C8: with max_courses = 1 and a start page that matches a course selector
\* the crawl persists exactly one record, and no url is taken once the cap
\* is reached
StartCourseSaved == (max_courses = 1 /\ start_matched) => saves = 1

CapStopsTaking == courses_found >= max_courses => fetched' = fetched

CapOneStartPage == [](StartCourseSaved) /\ [][CapStopsTaking]_vars

\* C9: every response a crawl reads comes, after redirects, from a url of
\* the job's domain
ReadsOnlyJobDomain ==
    \A w \in Workers : pc[w] = "reading" => get_domain(wfinal[w]) = JobDomain

(***************************************************************************)
(* Properties of link expansion                                            *)
(***************************************************************************)
\* the path of url ends in a blocked extension, in any letter case
BlockedPath(url) ==
    \E ext \in BlockedExtensions : EndsWith(Lower(UrlPath(url)), ext)

\* C10: link expansion never appends to url_queue a url whose path ends in
\* a blocked extension, in whatever letter case the link is written
BlockedNeverEnqueued ==
    /\ \A k \in 1..Len(url_queue) : ~BlockedPath(url_queue[k])
    /\ \A i \in 1..(link_pos - 1) :
          BlockedPath(page_links[i]) =>
             \A k \in 1..Len(url_queue) : url_queue[k] # normalize_url(page_links[i])

\* a link of the job's domain with an upper-case blocked extension was
\* expanded, a later link was appended
BlockedUpperCaseSkipped ==
    /\ link_pos = 3
    /\ BlockedPath(page_links[1])
    /\ page_links[1] # Lower(page_links[1])
    /\ StartsWith(page_links[1], HttpPrefix)
    /\ get_domain(normalize_url(page_links[1])) = JobDomain
    /\ normalize_url(page_links[1]) \notin visited_urls
    /\ url_queue = <<normalize_url(U_A2)>>

(***************************************************************************)
(* Properties of the start requests and of the institution's status        *)
(***************************************************************************)
\* C2: a start request that finds the status queued or in_progress is
\* rejected, and rejecting it changes neither the status nor the job queue
RejectedStep ==
    \A r \in Requests :
       /\ (/\ req[r].pc = "idle"
           /\ req'[r].pc # "idle"
           /\ scraper_status \in {"queued", "in_progress"})
             => (/\ req'[r].pc = "rejected"
                 /\ scraper_status' = scraper_status
                 /\ rq' = rq)
       /\ (req[r].pc = "rejected" /\ req'[r] # req[r])
             => (/\ req'[r].pc = "idle"
                 /\ scraper_status' = scraper_status
                 /\ rq' = rq)

ActiveStartRejected == [][RejectedStep]_vars

\* requests of both kinds stand rejected while the status is in_progress and
\* nothing was enqueued
BothKindsRejected ==
    /\ scraper_status = "in_progress"
    /\ rq = <<>>
    /\ \E r1, r2 \in Requests :
          /\ req[r1].pc = "rejected" /\ req[r1].kind = "crawl"
          /\ req[r2].pc = "rejected" /\ req[r2].kind = "courses"

\* C3: whatever the interleaving of two start requests, at most one crawl
\* job of the institution is queued or running at a time
ActiveJobs == Len(rq) + (IF crawl_pc \in {"new", "running"} THEN 1 ELSE 0)

AtMostOneActiveJob == ActiveJobs <= 1

\* C4: a start request that finds a status other than queued and in_progress
\* is accepted and sets the status to queued, and once a crawl run has ended
\* with no other job or request around, the next start request is accepted
Answered(r) == req[r].pc = "idle" /\ req'[r].pc \notin {"idle", "not_found", "bad_domain"}

RunEnded(r) ==
    /\ job.kind = "crawl"
    /\ crawl_pc = "done"
    /\ rq = <<>>
    /\ \A r2 \in Requests \ {r} : req[r2].pc = "idle"

StartStep ==
    \A r \in Requests :
       /\ (Answered(r) /\ scraper_status \notin {"queued", "in_progress"})
             => req'[r].pc = "checked"
       /\ (req[r].pc = "enqueued" /\ req'[r].pc = "accepted")
             => scraper_status' = "queued"
       /\ (Answered(r) /\ RunEnded(r)) => req'[r].pc = "checked"

StartAcceptedWhenInactive == [][StartStep]_vars

\* C5 as claimed: the stored status only moves forward along
\* not_started -> queued -> in_progress -> {completed, failed, cancelled}
ForwardEdges ==
    {<<"not_started", "queued">>, <<"queued", "in_progress">>}
        \cup ({"in_progress"} \X {"completed", "failed", "cancelled"})

StatusOnlyForward ==
    [][(scraper_status # "absent" /\ scraper_status' # scraper_status)
          => <<scraper_status, scraper_status'>> \in ForwardEdges]_vars

\* C5 as amended: the stored status only moves forward along that chain, or
\* from a terminal status back to queued when a start request is accepted
RestartEdges == {"completed", "failed", "cancelled"} \X {"queued"}

StatusForwardOrRestart ==
    [][(scraper_status # "absent" /\ scraper_status' # scraper_status)
          => <<scraper_status, scraper_status'>> \in ForwardEdges \cup RestartEdges]_vars

\* an accepted start request has moved a completed institution back to queued
RestartedFromTerminal ==
    /\ status_before = "completed"
    /\ scraper_status = "queued"
    /\ \E r \in Requests : req[r].pc = "accepted"

\* C6: a run of Crawler.crawl sets the stored status to in_progress, and
\* when it ends the stored status is completed or failed
RunStep ==
    /\ (/\ job.kind = "crawl"
        /\ crawl_pc = "new" /\ crawl_pc' = "running"
        /\ institution' = "found")
          => scraper_status' = "in_progress"
    /\ (/\ job.kind = "crawl"
        /\ crawl_pc = "running" /\ crawl_pc' = "done"
        /\ institution = "found")
          => scraper_status' \in {"completed", "failed"}

RunWritesStoredStatus == [][RunStep]_vars

(***************************************************************************)
(* Properties of field extraction                                          *)
(***************************************************************************)
\* the number of leaf fields an assembled record holds for the rules
RECURSIVE LeavesIn(_, _)
LeavesIn(data, rules) ==
    IF rules = <<>> THEN 0
    ELSE LET rule == Head(rules) IN
         (IF rule.name \notin DOMAIN data THEN 0
          ELSE IF rule.nested_fields # <<>>
          THEN LeavesIn(data[rule.name], rule.nested_fields)
          ELSE 1)
            + LeavesIn(data, Tail(rules))

\* the leaf fields a call has extracted
ExtractedLeaves == LeavesIn(extracted_fields.data, extraction_rules)

RECURSIVE RuleLeaves(_)
RuleLeaves(rules) ==
    IF rules = <<>> THEN 0
    ELSE (IF Head(rules).nested_fields # <<>>
          THEN RuleLeaves(Head(rules).nested_fields)
          ELSE 1)
            + RuleLeaves(Tail(rules))

\* neither the primary selector nor a fallback of the descriptor is valid
NoValidSelector(field) ==
    /\ ~_validate_selector(field.primary_selector)
    /\ \A k \in 1..Len(field.fallback_selectors) :
          ~_validate_selector(field.fallback_selectors[k])

\* C12: a descriptor whose primary and fallback selectors are all invalid
\* is left out of the compiled rules and is not counted in total_fields
DroppedFieldNotCounted ==
    results # <<>> =>
       /\ \A i \in 1..Len(target_fields) :
             NoValidSelector(target_fields[i]) =>
                \A k \in 1..Len(extraction_rules) :
                   extraction_rules[k].name # target_fields[i].name
       /\ total_fields = RuleLeaves(extraction_rules)

\* C13: for the same document and the same descriptor list, every call of
\* extract_data_from_html returns what the first call returned, also when
\* the first compile wrote a fallback into the descriptors
SameResultEveryCall == \A i \in 1..Len(results) : results[i] = results[1]

\* the second call ran on descriptors into which the first had written the
\* fallback h1, and returned a record with the title
FallbackReusedOnSecondCall ==
    /\ Len(results) = 2
    /\ target_fields # <<>>
    /\ target_fields[1].primary_selector = "h1"
    /\ results[2].returned = "data"
    /\ "title" \in DOMAIN results[2].data

(***************************************************************************)
(* A job of either kind with its fetches: Crawler.crawl with its workers,  *)
(* or scrape_courses with one process_single_url task for each url         *)
(***************************************************************************)
\* process_single_url never waiting for the semaphore
TaskStartUnguarded ==
    /\ crawl_pc = "running"
    /\ job.kind = "courses"
    /\ tasks["new"] > 0
    /\ tasks' = [tasks EXCEPT !["new"] = @ - 1, !["fetching"] = @ + 1]
    /\ course_semaphore' = course_semaphore
    /\ UNCHANGED <<apiVars, runVars, crawlerVars, historyVars, linkVars, extractVars, storeVars>>

\* a task runs for the first time: "async with semaphore" takes the
\* semaphore and the task goes on to session.get, or the task waits (when
\* the value is 0 and, depending on the asyncio version, when others wait)
TaskStart ==
    /\ crawl_pc = "running"
    /\ job.kind = "courses"
    /\ tasks["new"] > 0
    /\ \/ /\ course_semaphore > 0
          /\ tasks' = [tasks EXCEPT !["new"] = @ - 1, !["fetching"] = @ + 1]
          /\ course_semaphore' = course_semaphore - 1
       \/ /\ course_semaphore = 0 \/ tasks["waiting"] > 0
          /\ tasks' = [tasks EXCEPT !["new"] = @ - 1, !["waiting"] = @ + 1]
          /\ course_semaphore' = course_semaphore
    /\ UNCHANGED <<apiVars, runVars, crawlerVars, historyVars, linkVars, extractVars, storeVars>>

\* a waiting task is given the semaphore and goes on to session.get
TaskWake ==
    /\ crawl_pc = "running"
    /\ job.kind = "courses"
    /\ tasks["waiting"] > 0
    /\ course_semaphore > 0
    /\ tasks' = [tasks EXCEPT !["waiting"] = @ - 1, !["fetching"] = @ + 1]
    /\ course_semaphore' = course_semaphore - 1
    /\ UNCHANGED <<apiVars, runVars, crawlerVars, historyVars, linkVars, extractVars, storeVars>>

\* the fetch of a task is over (a response read and extracted, another
\* status, or an exception): the task leaves "async with semaphore"
TaskFetchDone ==
    /\ crawl_pc = "running"
    /\ job.kind = "courses"
    /\ tasks["fetching"] > 0
    /\ tasks' = [tasks EXCEPT !["fetching"] = @ - 1, !["done"] = @ + 1]
    /\ course_semaphore' = course_semaphore + 1
    /\ UNCHANGED <<apiVars, runVars, crawlerVars, historyVars, linkVars, extractVars, storeVars>>

\* the queue worker is about to call scrape_courses with a list of n urls
InitCourses ==
    /\ scraper_status = "queued"
    /\ status_before = "none"
    /\ req = [r \in Requests |-> IdleRequest]
    /\ rq = <<>>
    /\ \E n \in 0..NCourseUrls :
          /\ job = [kind |-> "courses", course_urls |-> [i \in 1..n |-> U_A]]
          /\ tasks = [p \in TaskPositions |-> IF p = "new" THEN n ELSE 0]
    /\ course_semaphore = SemaphoreSize
    /\ crawl_pc = "new"
    /\ institution = "unbound"
    /\ scraping_status = "unset"
    /\ start_url = None
    /\ max_courses = 0
    /\ courses_found = 0
    /\ visited_urls = {}
    /\ url_queue = <<>>
    /\ pending_urls = {}
    /\ semaphore = SemaphoreSize
    /\ pc = [w \in Workers |-> "new"]
    /\ wurl = [w \in Workers |-> None]
    /\ wfinal = [w \in Workers |-> None]
    /\ HistoryInit
    /\ page_links = <<>>
    /\ link_pos = 1
    /\ NoExtraction /\ NoStore

InitFetch == InitCrawl \/ InitCourses

NextFetch ==
    \/ NextCrawl
    \/ ScrapeCoursesBegin
    \/ TaskStart
    \/ TaskWake
    \/ TaskFetchDone
    \/ ScrapeCoursesEnd

SpecFetch == InitFetch /\ [][NextFetch]_vars

(***************************************************************************)
(* Properties of one crawl: failures, termination, the cap                 *)
(***************************************************************************)
\* every worker has left its loop without raising
AllExited == \A w \in Workers : pc[w] = "exited"

\* a worker has a url in flight
InFlight(w) == pc[w] \in {"fetching", "reading"}

\* C14: a failure while processing one url stays in that url's processing:
\* when every worker has left its loop normally the crawl ends with the
\* status completed, never failed, whether or not max_courses was reached
FailuresContained ==
    (crawl_pc = "done" /\ institution = "found" /\ AllExited)
       => scraper_status = "completed"

\* C15: when the institution cannot be loaded at the start of crawl, no url
\* is fetched and, the run over, the status is failed
MissingInstitutionAborts ==
    (crawl_pc # "new" /\ institution # "found")
       => /\ fetched = {}
          /\ crawl_pc \in {"done", "raised"} => scraper_status = "failed"

\* C17: pending_urls holds every url in flight, and below the cap a worker
\* leaves its loop only when url_queue is empty and no worker has a url in
\* flight
InFlightArePending == \A w \in Workers : InFlight(w) => wurl[w] \in pending_urls

ExitsOnlyWhenIdle ==
    \A w \in Workers :
       (pc[w] # "exited" /\ pc'[w] = "exited" /\ courses_found' < max_courses)
          => /\ url_queue' = <<>>
             /\ \A v \in Workers : pc'[v] \notin {"fetching", "reading"}

WorkersExitOnlyWhenIdle == [](InFlightArePending) /\ [][ExitsOnlyWhenIdle]_vars

Pairs(log) == {log[i] : i \in 1..Len(log)}

\* the positions of table whose course has the url and the owner
Held(table, owners, url, owner) ==
    {k \in 1..Len(table) : table[k].url = url /\ owners[k] = owner}

\* C16: after any saves the store holds exactly one course for each
\* (url, institution_id) pair saved, and no other
OneCoursePerSavedPair ==
    /\ \A pair \in Pairs(saved) :
          Cardinality(Held(courses, [k \in 1..Len(courses) |-> courses[k].institution_id],
                           pair[1], pair[2])) = 1
    /\ Len(courses) = Cardinality(Pairs(saved))
    /\ \A pair \in Pairs(provider_saved) :
          Cardinality(Held(collection,
                           [k \in 1..Len(collection) |-> collection[k].provider_id],
                           pair[1], pair[2])) = 1
    /\ Len(collection) = Cardinality(Pairs(provider_saved))

AllOut == \A w \in Workers : pc[w] \in {"exited", "raised", "cancelled"}

\* once the workers of a crawl are created, every worker ends
WorkersEnd == (crawl_pc = "running") ~> AllOut

\* C20: over a finite site whose fetches all return or time out, every
\* worker of a crawl ends and the crawl sets a terminal status
CrawlEndsWithStatus ==
    (crawl_pc = "running" /\ institution = "found")
       ~> (AllOut /\ scraper_status \in {"completed", "failed"})

(***************************************************************************)
(* Properties of process_url                                               *)
(***************************************************************************)
\* process_url of worker w ends in this step, and the worker loops
ProcessingEnds(w) == FetchFail(w) \/ ReadFail(w) \/ ReadOk(w)

\* the worker is in its next fetch once the step is taken
TakesNext(w) == pc'[w] = "fetching"

\* when process_url of a worker ends its url is in visited_urls and out of
\* pending_urls (unless the worker pops the same url again as its next
\* item), and the worker pops the head of the queue if the cap allows
EndStep ==
    \A w \in Workers :
       ProcessingEnds(w) =>
          /\ wurl[w] \in visited_urls'
          /\ wurl[w] \in pending_urls' => (TakesNext(w) /\ wurl'[w] = wurl[w])
          /\ pc'[w] \in {"fetching", "sleep", "exited"}
          /\ (courses_found' < max_courses /\ url_queue # <<>>)
                => (TakesNext(w) /\ wurl'[w] = Head(url_queue))

\* after a 200 response the requested url and the normalized final url are
\* in visited_urls
FinalVisited ==
    \A w \in Workers :
       pc[w] = "reading" =>
          {wurl[w], normalize_url(wfinal[w])} \subseteq visited_urls

\* C21: whatever the outcome of a url a worker processes, when processing
\* ends the url is out of pending_urls and in visited_urls and the worker
\* goes on to its next queue item; after a 200 response the normalized
\* final url is in visited_urls too, and visited_urls never loses a url
UrlSettledWhenProcessed ==
    /\ [][EndStep]_vars
    /\ []FinalVisited
    /\ [][visited_urls \subseteq visited_urls']_vars

\* a redirected url was read and is settled, and a worker fetches a later url
RedirectSettledNextTaken ==
    /\ normalize_url(U_BU) \in visited_urls
    /\ start_url \in visited_urls \ pending_urls
    /\ \E w \in Workers : pc[w] = "fetching" /\ wurl[w] # start_url

(***************************************************************************)
(* Properties of the compiled rules                                        *)
(***************************************************************************)
\* the descriptor's primary selector is invalid and a fallback is valid
NeedsFallback(field) ==
    /\ ~_validate_selector(field.primary_selector)
    /\ \E k \in 1..Len(field.fallback_selectors) :
          _validate_selector(field.fallback_selectors[k])

\* the first valid selector of a list that has one
FirstValid(selectors) ==
    selectors[CHOOSE k \in 1..Len(selectors) :
                 /\ _validate_selector(selectors[k])
                 /\ \A j \in 1..(k - 1) : ~_validate_selector(selectors[j])]

\* every descriptor of the list that needs a fallback, at any depth, has a
\* rule among the rules whose primary selector is its first valid fallback
RECURSIVE FallbackCompiled(_, _)
FallbackCompiled(fields, rules) ==
    \A i \in 1..Len(fields) :
       LET field == fields[i] IN
       /\ NeedsFallback(field) =>
             \E k \in 1..Len(rules) :
                /\ rules[k].name = field.name
                /\ rules[k].primary_selector = FirstValid(field.fallback_selectors)
       /\ \A k \in 1..Len(rules) :
             (rules[k].name = field.name /\ field.nested_fields # <<>>)
                => FallbackCompiled(field.nested_fields, rules[k].nested_fields)

\* C22: compiling a descriptor whose primary selector is invalid and that
\* has a valid fallback gives a rule whose primary selector is the first
\* valid fallback in list order, and the rule's leaves are in total_fields
FirstValidFallbackCompiled ==
    [][results' # results =>
          /\ FallbackCompiled(target_fields, extraction_rules')
          /\ total_fields' >= RuleLeaves(extraction_rules')]_vars

\* the first compile has put the second fallback h1, the first being
\* malformed, into the rule of title, and the nested fallback .n into n
SecondFallbackCompiled ==
    /\ Len(results) = 1
    /\ Len(extraction_rules) = 3
    /\ extraction_rules[1].primary_selector = "h1"
    /\ extraction_rules[1].fallback_selectors = <<MalformedSelector, "h1">>
    /\ extraction_rules[3].nested_fields # <<>>
    /\ extraction_rules[3].nested_fields[1].primary_selector = ".n"
    /\ extraction_rules[3].nested_fields[1].fallback_selectors = <<"", ".n">>
    /\ total_fields = 4

(***************************************************************************)
(* Properties of _extract_fields                                           *)
(***************************************************************************)
\* the element the rule is to use under element: that of the first of its
\* selectors, the primary before the fallbacks in list order, that matches
FirstMatch(element, rule) ==
    LET selectors == <<rule.primary_selector>> \o rule.fallback_selectors
        matching == {k \in 1..Len(selectors) : select_one(element, selectors[k]).present}
    IN  IF matching = {} THEN NoElement
        ELSE select_one(element, selectors[CHOOSE k \in matching : \A j \in matching : k <= j])

\* every field of the record, at any depth, comes from the first match of
\* its rule, and a string field is absent only if its rule matches nothing
RECURSIVE UsesFirstMatch(_, _, _)
UsesFirstMatch(element, rules, data) ==
    \A k \in 1..Len(rules) :
       LET rule == rules[k]
           target == FirstMatch(element, rule)
       IN  /\ rule.name \in DOMAIN data => target.present
           /\ rule.data_type = "string" =>
                 /\ rule.name \in DOMAIN data <=> target.present
                 /\ target.present => data[rule.name] = target.text
           /\ (rule.name \in DOMAIN data /\ rule.nested_fields # <<>>)
                 => UsesFirstMatch(target, rule.nested_fields, data[rule.name])

\* C23: each rule uses the element its primary selector matches if there
\* is one, else that of the first fallback in list order that matches, and
\* the field is unmatched only when none of them matches
PrimaryThenFallbacksInOrder ==
    results # <<>> => UsesFirstMatch(html_content, extraction_rules, extracted_fields.data)

\* the primary selector of title matched nothing, both fallbacks matched
\* different elements, and title has the text of the first
FirstFallbackOfTwoUsed ==
    /\ results # <<>>
    /\ extraction_rules # <<>>
    /\ extraction_rules[1].primary_selector = ".t"
    /\ extraction_rules[1].fallback_selectors = <<"h1.title", "h1">>
    /\ html_content.hits["h1.title"] = Leaf(T_DS)
    /\ html_content.hits["h1"] = Leaf(T_X)
    /\ "title" \in DOMAIN extracted_fields.data
    /\ extracted_fields.data["title"] = T_DS

\* every selector of the rules, primary and fallback, at any depth, is valid
RECURSIVE SelectorsValid(_)
SelectorsValid(rules) ==
    \A k \in 1..Len(rules) :
       /\ _validate_selector(rules[k].primary_selector)
       /\ \A j \in 1..Len(rules[k].fallback_selectors) :
             _validate_selector(rules[k].fallback_selectors[j])
       /\ SelectorsValid(rules[k].nested_fields)

\* C24: validity is decided when the rules are compiled: every selector of
\* a compiled rule is valid, and _extract_fields validates no selector
ValidatedOnceAtCompile ==
    results # <<>> =>
       /\ SelectorsValid(extraction_rules)
       /\ ExtractValidations(html_content, extraction_rules) = 0

\* the numbers the texts of the documents stand for: as an integer the
\* digits of the text, as a float its digits and dots; no entry where the
\* text has no digit, or as a float more than one dot
IntegerOf == (T_30E :> 30) @@ (T_123 :> 123) @@ (T_250 :> 250)

FloatOf ==
    (T_30E :> [whole |-> 30, decimals |-> <<>>])
        @@ (T_250 :> [whole |-> 2, decimals |-> <<"5">>])

NumberOf(data_type) == IF data_type = "integer" THEN IntegerOf ELSE FloatOf

\* C25: an integer field holds the integer formed by the digits of the
\* matched text and a float field the number formed by its digits and
\* dots; where the parse fails the field is absent and not counted
NumbersFromDigits ==
    results # <<>> =>
       /\ \A k \in 1..Len(extraction_rules) :
             LET rule == extraction_rules[k]
                 target == select_one(html_content, rule.primary_selector)
                 data == extracted_fields.data
             IN  (rule.data_type \in {"integer", "float"} /\ target.present) =>
                    /\ rule.name \in DOMAIN data
                          <=> target.text \in DOMAIN NumberOf(rule.data_type)
                    /\ rule.name \in DOMAIN data
                          => data[rule.name] = NumberOf(rule.data_type)[target.text]
       /\ extracted_fields.extracted_count = ExtractedLeaves

\* a float field matched a text with two dots: it is absent, the title
\* is there and one field is counted
TwoDotsAbsent ==
    /\ results # <<>>
    /\ \E k \in 1..Len(extraction_rules) :
          /\ extraction_rules[k].name = "ects"
          /\ extraction_rules[k].data_type = "float"
    /\ html_content.hits[".ects"] = Leaf(T_123)
    /\ DOMAIN extracted_fields.data = {"title"}
    /\ extracted_fields.extracted_count = 1

(***************************************************************************)
(* Properties of object fields                                             *)
(***************************************************************************)
\* the names of the nested rules whose primary selector matches under
\* target a text their type can take
NestedExtracted(target, nested_rules) ==
    {nested_rules[j].name : j \in {i \in 1..Len(nested_rules) :
        LET leaf == select_one(target, nested_rules[i].primary_selector) IN
        /\ leaf.present
        /\ nested_rules[i].data_type \in {"integer", "float"}
              => leaf.text \in DOMAIN NumberOf(nested_rules[i].data_type)}}

\* the rules of the list that are of type object
ObjectRules(rules) == {k \in 1..Len(rules) : rules[k].data_type = "object"}

\* the number of nested leaves extracted for the object rules of the list
RECURSIVE NestedLeaves(_, _)
NestedLeaves(element, rules) ==
    IF rules = <<>> THEN 0
    ELSE (IF Head(rules).data_type = "object"
          THEN Cardinality(NestedExtracted(FirstMatch(element, Head(rules)),
                                           Head(rules).nested_fields))
          ELSE 0)
            + NestedLeaves(element, Tail(rules))

\* C26: the nested rules of an object field are evaluated under the element
\* the field matched; the field's value is a sub-mapping holding exactly
\* the nested leaves that were extracted, and the extracted count grows by
\* the number of those leaves
ObjectFieldIsSubMapping ==
    results # <<>> =>
       LET data == extracted_fields.data
           objects == ObjectRules(extraction_rules)
           there == {k \in objects : extraction_rules[k].name \in DOMAIN data}
           leaves == {k \in 1..Len(extraction_rules) \ objects :
                         extraction_rules[k].name \in DOMAIN data}
           expected(k) == NestedExtracted(FirstMatch(html_content, extraction_rules[k]),
                                          extraction_rules[k].nested_fields)
       IN  /\ \A k \in objects : k \in there <=> expected(k) # {}
           /\ \A k \in there : DOMAIN data[extraction_rules[k].name] = expected(k)
           /\ extracted_fields.extracted_count
                 = Cardinality(leaves) + NestedLeaves(html_content, extraction_rules)

\* the rules of the list, at any depth, are of type object exactly when
\* they have nested rules
RECURSIVE ObjectIffNested(_)
ObjectIffNested(rules) ==
    \A k \in 1..Len(rules) :
       /\ rules[k].data_type = "object" <=> rules[k].nested_fields # <<>>
       /\ ObjectIffNested(rules[k].nested_fields)

\* C27: the data_type of every compiled rule is object if and only if its
\* nested_fields is a non-empty list
ObjectRulesHaveNested == results # <<>> => ObjectIffNested(extraction_rules)

(***************************************************************************)
(* Completeness of link expansion                                          *)
(***************************************************************************)
\* the link is absolute http or https, of the job's domain, not visited,
\* and its path does not end in a blocked extension, as written or normalized
Eligible(link) ==
    /\ StartsWith(link, HttpPrefix) \/ StartsWith(link, HttpsPrefix)
    /\ get_domain(normalize_url(link)) = JobDomain
    /\ normalize_url(link) \notin visited_urls
    /\ ~BlockedPath(link)
    /\ ~BlockedPath(normalize_url(link))

\* C28: link expansion appends to url_queue every link that is absolute
\* http or https, of the job's domain, not visited and whose path does not
\* end in a blocked extension, wherever else in the url such a string occurs
EligibleLinksEnqueued ==
    \A i \in 1..(link_pos - 1) :
       Eligible(page_links[i]) =>
          \E k \in 1..Len(url_queue) : url_queue[k] = normalize_url(page_links[i])

(***************************************************************************)
(* The status of a new institution                                         *)
(***************************************************************************)
\* add_institution stores a status that is neither queued nor in_progress,
\* so that no start request that follows it is answered as a conflict
AddStep ==
    (scraper_status = "absent" /\ scraper_status' # "absent") =>
       /\ scraper_status' \notin {"queued", "in_progress"}
       /\ \A request \in StartRequests : Checked(scraper_status', request) # "rejected"

\* C29: a newly added institution starts in a status that is not active,
\* and the first start request for it is not rejected as a conflict
NewInstitutionNotActive == [][AddStep]_vars

(***************************************************************************)
(* Extracted fields against total_fields                                   *)
(***************************************************************************)
\* the extracted count of a call never exceeds total_fields
ExtractedWithinTotal ==
    results # <<>> => extracted_fields.extracted_count <= total_fields

\* C30: the number of extracted leaf fields never exceeds total_fields, and
\* extract_data returns a record only when total_fields is greater than
\* zero and at least one field was extracted
RecordOnlyWithFields ==
    /\ ExtractedWithinTotal
    /\ \A i \in 1..Len(results) :
          results[i].returned # "None"
             => (total_fields > 0 /\ extracted_fields.extracted_count >= 1)

====
